---- MODULE Spec2Model ----
(***************************************************************************)
(* Model of src/run.py: the batch pipeline main() that validates a YAML    *)
(* configuration, seeds numpy's global generator, loads a CSV table,       *)
(* computes a trailing rolling mean of the close column, derives a 0/1     *)
(* signal per row, aggregates the signal rate and writes one JSON document *)
(* (metrics or error) to the output path.                                  *)
(*                                                                         *)
(* Each invocation of main() is a run r \in Runs.  Runs of one process     *)
(* share what the code keeps in process-global objects: the logger         *)
(* 'mlops_pipeline' with its handler list, and numpy's global generator.   *)
(* Every run has its own config, input, output and log-file path.          *)
(*                                                                         *)
(* Arithmetic is exact: a mean is the pair (sum, count) and a rounded      *)
(* value is an integer number of ten-thousandths.  Calls to the logger do  *)
(* not raise (logging.Handler.handle routes emit errors to handleError).   *)
(***************************************************************************)
EXTENDS Integers, Sequences, FiniteSets

\* ------------------------------------------------------------- bounds
MaxRows == 3        \* longest table
MaxClose == 3       \* close values are 1..MaxClose, or NaN
MaxWindow == 3      \* largest configured window
MaxElapsed == 1     \* elapsed milliseconds are 0..MaxElapsed

Runs == {1, 2}

\* ------------------------------------------------- YAML values, config
\* A YAML scalar as Python sees it: its type, its integer value, its text.
\* wide: an integer above 2**32 - 1, whose i is not its value.
Val(t, i, s) == [t |-> t, i |-> i, s |-> s, wide |-> FALSE]
WideInt == [t |-> "int", i |-> 2147483647, s |-> "", wide |-> TRUE]
Missing == Val("missing", 0, "")
IntV(n) == Val("int", n, "")
BoolV(b) == Val("bool", IF b THEN 1 ELSE 0, "")
FloatV(n) == Val("float", n, "")
StrV(s) == Val("str", 0, s)

\* isinstance(x, int): Python's bool is a subclass of int.
IsInstanceInt(x) == x.t \in {"int", "bool"}
IsInstanceStr(x) == x.t = "str"

Doc(kind, seed, window, version, extra) ==
    [kind |-> kind, seed |-> seed, window |-> window, version |-> version,
     extra |-> extra]

SeedValues ==
    {Missing, IntV(-1), IntV(7), WideInt, BoolV(TRUE), StrV("7")}
WindowValues ==
    {Missing, IntV(0), BoolV(TRUE), BoolV(FALSE), FloatV(2), StrV("3")}
        \cup {IntV(w) : w \in 1..MaxWindow}
VersionValues == {Missing, StrV("v1"), StrV("v2"), StrV(""), IntV(2)}
ExtraValues == {Missing, IntV(1)}

\* What the config path holds: no file, text yaml cannot parse, a document
\* that is empty or not a mapping, or a mapping; two of the mappings have a
\* key besides the three.
ConfigDocs ==
    {Doc(k, Missing, Missing, Missing, Missing) :
        k \in {"notfound", "yamlerror", "empty", "notdict"}}
    \cup {Doc("dict", s, w, v, Missing) :
            s \in SeedValues, w \in WindowValues, v \in VersionValues}
    \cup {Doc("dict", IntV(7), w, StrV("v2"), e) :
            w \in {Missing, IntV(2)}, e \in ExtraValues}

Ok(config) == [ok |-> TRUE, msg |-> "", config |-> config]
Raise(msg) == [ok |-> FALSE, msg |-> msg,
               config |-> Doc("none", Missing, Missing, Missing, Missing)]

load_config(doc) ==
    IF doc.kind = "notfound" THEN Raise("Configuration file not found")
    ELSE IF doc.kind = "yamlerror" THEN Raise("yaml.YAMLError")
    ELSE IF doc.kind \in {"empty", "notdict"}
        THEN Raise("Invalid config file: empty or malformed")
    ELSE IF doc.seed = Missing THEN Raise("Missing required config key: seed")
    ELSE IF doc.window = Missing THEN Raise("Missing required config key: window")
    ELSE IF doc.version = Missing THEN Raise("Missing required config key: version")
    ELSE IF ~IsInstanceInt(doc.seed) THEN Raise("seed must be an integer")
    ELSE IF ~IsInstanceInt(doc.window) \/ doc.window.i < 1
        THEN Raise("window must be a positive integer")
    ELSE IF ~IsInstanceStr(doc.version) THEN Raise("version must be a string")
    ELSE Ok(doc)

\* numpy.random.seed(seed): the legacy seeding takes operator.index(seed) and
\* raises ValueError outside 0 .. 2**32 - 1.
SeedAccepted(seed) == seed.i >= 0 /\ ~seed.wide

\* ------------------------------------------------------ the input table
\* A cell of the close column: a number, or NaN (an empty cell).
Num(n) == [nan |-> FALSE, v |-> n]
NaN == [nan |-> TRUE, v |-> 0]
Cells == {Num(n) : n \in 1..MaxClose} \cup {NaN}

SeqsUpTo(S, n) == UNION {[1..k -> S] : k \in 0..n}

\* What the input path holds: no file, a file with no text, text the CSV
\* parser rejects, or a table.  A table has rows (the cells of its close
\* column, or of the column it has instead), and its close column may be
\* absent or hold text.
Table(kind, hasClose, numeric, close) ==
    [kind |-> kind, hasClose |-> hasClose, numeric |-> numeric, close |-> close]
NoTable == Table("none", FALSE, FALSE, <<>>)
InputFiles ==
    {Table(k, FALSE, FALSE, <<>>) : k \in {"notfound", "emptyfile", "parseerror"}}
    \cup {Table("table", TRUE, TRUE, c) : c \in SeqsUpTo(Cells, MaxRows)}
    \cup {Table("table", FALSE, TRUE, <<Num(1), Num(2)>>),
          Table("table", TRUE, FALSE, <<Num(1), Num(2)>>)}

OkData(df) == [ok |-> TRUE, msg |-> "", df |-> df]
RaiseData(msg) == [ok |-> FALSE, msg |-> msg, df |-> NoTable]

load_data(file) ==
    IF file.kind = "notfound" THEN RaiseData("Input file not found")
    ELSE IF file.kind = "emptyfile" THEN RaiseData("Input CSV file is empty")
    ELSE IF file.kind = "parseerror" THEN RaiseData("Invalid CSV format")
    ELSE IF Len(file.close) = 0 THEN RaiseData("CSV file contains no data rows")
    ELSE IF ~file.hasClose THEN RaiseData("Missing required column: close")
    ELSE OkData(file)

\* ------------------------------------------------------- rolling mean
\* Series.rolling(window).mean() keeps a running (nobs, sum) over the
\* window: a value entering is added, a value leaving is removed, NaN cells
\* are skipped, and the mean is present once nobs reaches min_periods,
\* which defaults to the window.
AddObs(x, st) ==
    IF x.nan THEN st ELSE [nobs |-> st.nobs + 1, sum |-> st.sum + x.v]
RemoveObs(x, st) ==
    IF x.nan THEN st ELSE [nobs |-> st.nobs - 1, sum |-> st.sum - x.v]

RECURSIVE RollState(_, _, _)
RollState(close, window, i) ==
    IF i = 0 THEN [nobs |-> 0, sum |-> 0]
    ELSE LET prev == RollState(close, window, i - 1)
             kept == IF i > window THEN RemoveObs(close[i - window], prev) ELSE prev
         IN AddObs(close[i], kept)

\* A mean: absent (NaN), or the fraction num / den.
Mean(st, minp) ==
    IF st.nobs >= minp THEN [nan |-> FALSE, num |-> st.sum, den |-> st.nobs]
    ELSE [nan |-> TRUE, num |-> 0, den |-> 1]

OkSeries(series) == [ok |-> TRUE, msg |-> "", series |-> series]
RaiseSeries(msg) == [ok |-> FALSE, msg |-> msg, series |-> <<>>]

\* df['close'].rolling(window=window).mean().  pandas validates the window
\* with is_integer, which is False of a bool, and cannot aggregate a column
\* that holds text.
compute_rolling_mean(df, window) ==
    IF window.t = "bool" THEN RaiseSeries("window must be an integer 0 or greater")
    ELSE IF ~df.numeric THEN RaiseSeries("DataError: no numeric types to aggregate")
    ELSE OkSeries([i \in 1..Len(df.close) |->
                    Mean(RollState(df.close, window.i, i), window.i)])

\* x > m elementwise; a comparison with NaN on either side is False.
Greater(x, m) == ~x.nan /\ ~m.nan /\ x.v * m.den > m.num
GreaterEq(x, m) == ~x.nan /\ ~m.nan /\ x.v * m.den >= m.num

generate_signals_notStrict(df, rolling_mean) ==
    [i \in 1..Len(df.close) |-> IF GreaterEq(df.close[i], rolling_mean[i]) THEN 1 ELSE 0]

generate_signals(df, rolling_mean) ==
    [i \in 1..Len(df.close) |-> IF Greater(df.close[i], rolling_mean[i]) THEN 1 ELSE 0]

\* ------------------------------------------------------------ metrics
RECURSIVE SumSeq(_)
SumSeq(s) == IF s = <<>> THEN 0 ELSE s[1] + SumSeq(Tail(s))

\* round(num / den, 4) in ten-thousandths, ties to the even neighbour.
Round4(num, den) ==
    LET q == (num * 10000) \div den
        rem == (num * 10000) % den
    IN IF 2 * rem > den THEN q + 1
       ELSE IF 2 * rem = den THEN q + (q % 2)
       ELSE q
Trunc4(num, den) == (num * 10000) \div den

\* An output document.  status "none": nothing at the path; "partial": the
\* path was opened for writing and the dump did not complete.
Document(status, version, rows, value, latency, seed, msg) ==
    [status |-> status, version |-> version, rows_processed |-> rows,
     metric |-> IF status = "success" THEN "signal_rate" ELSE "",
     value |-> value, latency_ms |-> latency, seed |-> seed,
     error_message |-> msg]
NoDocument == Document("none", "", 0, 0, 0, 0, "")
PartialDocument == Document("partial", "", 0, 0, 0, 0, "")

calculate_metrics_truncating(signals, total_rows, config, latency_ms) ==
    Document("success", config.version.s, total_rows,
             Trunc4(SumSeq(signals), Len(signals)), latency_ms, config.seed.i, "")

calculate_metrics(signals, total_rows, config, latency_ms) ==
    Document("success", config.version.s, total_rows,
             Round4(SumSeq(signals), Len(signals)), latency_ms, config.seed.i, "")

ErrorDocument(version, msg) == Document("error", version, 0, 0, 0, 0, msg)

\* ------------------------------------------------------------- state
VARIABLES
    pc,         \* pc[r]: where run r is in main()
    cfgFile,    \* cfgFile[r]: what load_config read at the config path
    inputFile,  \* inputFile[r]: what load_data read at the input path
    local,      \* local[r]: main()'s local variables
    disk,       \* disk[r]: the document at run r's output path
    written,    \* written[r]: the documents write_output completed, in order
    logfile,    \* logfile[r]: the lines in run r's log file, <<origin, line>>
    calls,      \* calls[r]: the pipeline calls made, "except" on entering the handler
    stages,     \* stages[r]: the runner states reached
    rng,        \* numpy's global generator: the seed it was last given
    handlers    \* the handlers of logging.getLogger('mlops_pipeline'), by installing run

vars == <<pc, cfgFile, inputFile, local, disk, written, logfile, calls, stages,
          rng, handlers>>

NoConfig == Doc("none", Missing, Missing, Missing, Missing)
NoFile == Doc("unread", Missing, Missing, Missing, Missing)
Unread == Table("unread", FALSE, FALSE, <<>>)

Locals ==
    [version |-> "", config |-> NoConfig, df |-> NoTable, rolling_mean |-> <<>>,
     signals |-> <<>>, metrics |-> NoDocument, exc |-> "", error_out |-> NoDocument]

Init ==
    /\ pc = [r \in Runs |-> "main"]
    /\ cfgFile = [r \in Runs |-> NoFile]
    /\ inputFile = [r \in Runs |-> Unread]
    /\ local = [r \in Runs |-> Locals]
    /\ disk = [r \in Runs |-> NoDocument]
    /\ written = [r \in Runs |-> <<>>]
    /\ logfile = [r \in Runs |-> {}]
    /\ calls = [r \in Runs |-> <<>>]
    /\ stages = [r \in Runs |-> <<>>]
    /\ rng = [seeded |-> FALSE, seed |-> 0]
    /\ handlers = <<>>

\* logger.info / logger.error by run r: every handler on the shared logger
\* emits the line, a FileHandler into the log file of the run that made it.
Emit(lf, hs, r, lines) ==
    [h \in Runs |->
        IF \E k \in 1..Len(hs) : hs[k] = h
        THEN lf[h] \cup {<<r, l>> : l \in lines}
        ELSE lf[h]]

Call(r, name) == calls' = [calls EXCEPT ![r] = Append(@, name)]
Reach(r, stage) == stages' = [stages EXCEPT ![r] = Append(@, stage)]
Goto(r, label) == pc' = [pc EXCEPT ![r] = label]
Info(r, lines) == logfile' = Emit(logfile, handlers, r, lines)

\* ------------------------------------------------------------ main()
\* Lines 133-138: setup_logging adds a file handler (mode 'w' truncates the
\* run's log file) and a stream handler to the shared logger, then
\* 'Job started' is logged and version takes its placeholder.
Main(r) ==
    /\ pc[r] = "main"
    /\ handlers' = Append(handlers, r)
    /\ logfile' = Emit([logfile EXCEPT ![r] = {}], handlers', r, {"INFO Job started"})
    /\ local' = [local EXCEPT ![r].version = "v1"]
    /\ Reach(r, "Started")
    /\ Goto(r, "load_config")
    /\ UNCHANGED <<cfgFile, inputFile, disk, written, calls, rng>>

\* Line 142: version = config['version'].
AssignVersion_skipped(config) == "v1"

AssignVersion(config) == config.version.s

\* Lines 141-142.
LoadConfig(r, docs) ==
    /\ pc[r] = "load_config"
    /\ Call(r, "load_config")
    /\ \E doc \in docs :
        /\ cfgFile' = [cfgFile EXCEPT ![r] = doc]
        /\ \/ /\ load_config(doc).ok
              /\ local' = [local EXCEPT ![r].config = load_config(doc).config,
                                        ![r].version = AssignVersion(load_config(doc).config)]
              /\ Info(r, {"INFO Config loaded"})
              /\ Reach(r, "ConfigLoaded")
              /\ Goto(r, "seed")
           \/ /\ ~load_config(doc).ok
              /\ local' = [local EXCEPT ![r].exc = load_config(doc).msg]
              /\ Goto(r, "except")
              /\ UNCHANGED <<logfile, stages>>
    /\ UNCHANGED <<inputFile, disk, written, rng, handlers>>

\* Lines 144-145: np.random.seed(config['seed']) sets the process-global
\* generator.
SeedRandom(r) ==
    /\ pc[r] = "seed"
    /\ Call(r, "seed")
    /\ \/ /\ SeedAccepted(local[r].config.seed)
          /\ rng' = [seeded |-> TRUE, seed |-> local[r].config.seed.i]
          /\ Info(r, {"INFO Random seed set"})
          /\ Reach(r, "SeedApplied")
          /\ Goto(r, "load_data")
          /\ UNCHANGED local
       \/ /\ ~SeedAccepted(local[r].config.seed)
          /\ local' = [local EXCEPT ![r].exc = "Seed must be between 0 and 2**32 - 1"]
          /\ Goto(r, "except")
          /\ UNCHANGED <<rng, logfile, stages>>
    /\ UNCHANGED <<cfgFile, inputFile, disk, written, handlers>>

\* Line 147.
LoadData(r, files) ==
    /\ pc[r] = "load_data"
    /\ Call(r, "load_data")
    /\ \E file \in files :
        /\ inputFile' = [inputFile EXCEPT ![r] = file]
        /\ \/ /\ load_data(file).ok
              /\ local' = [local EXCEPT ![r].df = load_data(file).df]
              /\ Info(r, {"INFO Data loaded"})
              /\ Reach(r, "DataLoaded")
              /\ Goto(r, "compute_rolling_mean")
           \/ /\ ~load_data(file).ok
              /\ local' = [local EXCEPT ![r].exc = load_data(file).msg]
              /\ Goto(r, "except")
              /\ UNCHANGED <<logfile, stages>>
    /\ UNCHANGED <<cfgFile, disk, written, rng, handlers>>

\* Line 149, continuing after a failure instead of raising.
ComputeRollingMean_swallowing(r) ==
    /\ pc[r] = "compute_rolling_mean"
    /\ Call(r, "compute_rolling_mean")
    /\ LET res == compute_rolling_mean(local[r].df, local[r].config.window)
       IN /\ local' = [local EXCEPT ![r].rolling_mean =
                            IF res.ok THEN res.series
                            ELSE [i \in 1..Len(local[r].df.close) |-> Mean([nobs |-> 0, sum |-> 0], 1)]]
          /\ IF res.ok
             THEN Info(r, {"INFO Rolling mean calculated"}) /\ Reach(r, "StatisticComputed")
             ELSE UNCHANGED <<logfile, stages>>
          /\ Goto(r, "generate_signals")
    /\ UNCHANGED <<cfgFile, inputFile, disk, written, rng, handlers>>

\* Line 149.
ComputeRollingMean(r) ==
    /\ pc[r] = "compute_rolling_mean"
    /\ Call(r, "compute_rolling_mean")
    /\ LET res == compute_rolling_mean(local[r].df, local[r].config.window)
       IN \/ /\ res.ok
             /\ local' = [local EXCEPT ![r].rolling_mean = res.series]
             /\ Info(r, {"INFO Rolling mean calculated"})
             /\ Reach(r, "StatisticComputed")
             /\ Goto(r, "generate_signals")
          \/ /\ ~res.ok
             /\ local' = [local EXCEPT ![r].exc = res.msg]
             /\ Goto(r, "except")
             /\ UNCHANGED <<logfile, stages>>
    /\ UNCHANGED <<cfgFile, inputFile, disk, written, rng, handlers>>

\* Line 150.
GenerateSignals(r) ==
    /\ pc[r] = "generate_signals"
    /\ Call(r, "generate_signals")
    /\ local' = [local EXCEPT ![r].signals =
                    generate_signals(local[r].df, local[r].rolling_mean)]
    /\ Info(r, {"INFO Signals generated"})
    /\ Reach(r, "SignalsComputed")
    /\ Goto(r, "calculate_metrics")
    /\ UNCHANGED <<cfgFile, inputFile, disk, written, rng, handlers>>

\* Lines 152-153: the clock is read, then the metrics are built from the
\* signals and len(df).
CalculateMetrics(r) ==
    /\ pc[r] = "calculate_metrics"
    /\ Call(r, "calculate_metrics")
    /\ \E elapsed_ms \in 0..MaxElapsed :
        local' = [local EXCEPT ![r].metrics =
                    calculate_metrics(local[r].signals, Len(local[r].df.close),
                                      local[r].config, elapsed_ms)]
    /\ Info(r, {"INFO Metrics"})
    /\ Reach(r, "MetricsComputed")
    /\ Goto(r, "write_output")
    /\ UNCHANGED <<cfgFile, inputFile, disk, written, rng, handlers>>

\* write_output(data, path), lines 127-129: open(path, 'w') may fail and
\* leave the path as it was; a dump that fails after the open leaves a
\* truncated file; both raise.  The results: the document at the path.
WriteFailures(r) == {disk[r], PartialDocument}

\* Lines 155-156.
WriteMetrics(r) ==
    /\ pc[r] = "write_output"
    /\ Call(r, "write_output")
    /\ \/ /\ disk' = [disk EXCEPT ![r] = local[r].metrics]
          /\ written' = [written EXCEPT ![r] = Append(@, "success")]
          /\ Info(r, {"INFO Metrics written"})
          /\ Reach(r, "WrittenSuccess")
          /\ Goto(r, "print")
          /\ UNCHANGED local
       \/ /\ \E d \in WriteFailures(r) : disk' = [disk EXCEPT ![r] = d]
          /\ local' = [local EXCEPT ![r].exc = "OSError: output path"]
          /\ Goto(r, "except")
          /\ UNCHANGED <<written, logfile, stages>>
    /\ UNCHANGED <<cfgFile, inputFile, rng, handlers>>

\* Lines 158-160: the echo to standard output (which raises when stdout is
\* closed or a broken pipe), the completion line, return 0.
EchoMetrics(r) ==
    /\ pc[r] = "print"
    /\ Call(r, "print")
    /\ \/ /\ Info(r, {"INFO Job completed successfully"})
          /\ Goto(r, "returned 0")
          /\ UNCHANGED local
       \/ /\ local' = [local EXCEPT ![r].exc = "OSError: stdout"]
          /\ Goto(r, "except")
          /\ UNCHANGED logfile
    /\ UNCHANGED <<cfgFile, inputFile, disk, written, stages, rng, handlers>>

\* Lines 162-170: except Exception as e.
HandleException(r) ==
    /\ pc[r] = "except"
    /\ Call(r, "except")
    /\ Info(r, {"ERROR Pipeline failed"})
    /\ local' = [local EXCEPT ![r].error_out =
                    ErrorDocument(local[r].version, local[r].exc)]
    /\ Goto(r, "write_error")
    /\ UNCHANGED <<cfgFile, inputFile, disk, written, stages, rng, handlers>>

\* Lines 171-173, returning before the write.
WriteError_returningFirst(r) ==
    /\ pc[r] = "write_error"
    /\ Info(r, {"INFO Job failed"})
    /\ Goto(r, "returned 1")
    /\ UNCHANGED <<cfgFile, inputFile, local, disk, written, calls, stages, rng, handlers>>

\* Lines 171-173: a failure of this write is raised inside the handler and
\* leaves main() uncaught.
WriteError(r) ==
    /\ pc[r] = "write_error"
    /\ Call(r, "write_output")
    /\ \/ /\ disk' = [disk EXCEPT ![r] = local[r].error_out]
          /\ written' = [written EXCEPT ![r] = Append(@, "error")]
          /\ Info(r, {"INFO Job failed"})
          /\ Reach(r, "WrittenFailure")
          /\ Goto(r, "returned 1")
       \/ /\ \E d \in WriteFailures(r) : disk' = [disk EXCEPT ![r] = d]
          /\ Goto(r, "uncaught")
          /\ UNCHANGED <<written, logfile, stages>>
    /\ UNCHANGED <<cfgFile, inputFile, local, rng, handlers>>

Step(r, docs, files) ==
    \/ Main(r)
    \/ LoadConfig(r, docs)
    \/ SeedRandom(r)
    \/ LoadData(r, files)
    \/ ComputeRollingMean(r)
    \/ GenerateSignals(r)
    \/ CalculateMetrics(r)
    \/ WriteMetrics(r)
    \/ EchoMetrics(r)
    \/ HandleException(r)
    \/ WriteError(r)

\* One process, one run: sys.exit(main()).
Next == Step(1, ConfigDocs, InputFiles)

Spec == Init /\ [][Next]_vars

\* main() used as a library: two runs of one process, interleaved in any
\* order, over a few configurations and inputs.
LibConfigDocs ==
    {Doc("dict", IntV(7), IntV(2), StrV("v1"), Missing),
     Doc("dict", IntV(11), IntV(1), StrV("v2"), Missing),
     Doc("dict", IntV(-1), IntV(1), StrV("v2"), Missing),
     Doc("dict", IntV(7), Missing, StrV("v1"), Missing)}
LibInputFiles ==
    {Table("table", TRUE, TRUE, <<Num(1), Num(2)>>),
     Table("table", TRUE, FALSE, <<Num(1), Num(2)>>),
     Table("notfound", FALSE, FALSE, <<>>)}

NextLib == \E r \in Runs : Step(r, LibConfigDocs, LibInputFiles)

SpecLib == Init /\ [][NextLib]_vars

\* ------------------------------------------------------------ properties
Has(seq, x) == \E k \in 1..Len(seq) : seq[k] = x
Count(seq, x) == Cardinality({k \in 1..Len(seq) : seq[k] = x})

Returned(r) == pc[r] \in {"returned 0", "returned 1"}

\* C1: a run that returns has written exactly one document during the run,
\* and the document at the output path is the complete MetricsRecord or the
\* complete ErrorRecord.
C1_SingleArtifact ==
    \A r \in Runs :
        Returned(r) =>
            /\ Len(written[r]) = 1
            /\ \/ disk[r].status = "success" /\ disk[r] = local[r].metrics
               \/ disk[r].status = "error" /\ disk[r] = local[r].error_out

\* The config documents C2 speaks of: a mapping with seed, window or version
\* missing, or not an integer, an integer, a string, or with window < 1.
NotStrictlyValid(doc) ==
    /\ doc.kind = "dict"
    /\ \/ Missing \in {doc.seed, doc.window, doc.version}
       \/ doc.seed.t # "int"
       \/ doc.window.t # "int"
       \/ doc.version.t # "str"
       \/ doc.window.i < 1

\* C2: when the config document misses a key, has a wrong-typed value or
\* window < 1, the run neither seeds the generator nor calls load_data.
C2_NoDataLoadOnBadConfig ==
    \A r \in Runs :
        NotStrictlyValid(cfgFile[r]) =>
            ~Has(stages[r], "SeedApplied") /\ ~Has(calls[r], "load_data")

RECURSIVE WindowSum(_, _, _)
WindowSum(close, lo, hi) ==
    IF lo > hi THEN 0 ELSE close[lo].v + WindowSum(close, lo + 1, hi)

\* close[i] is strictly greater than the arithmetic mean of the window
\* values ending at row i (rows from 1): the window lies inside the table,
\* every cell of it is a number, and close[i] * window > their sum.
AboveWindowMean(close, window, i) ==
    /\ i >= window
    /\ \A k \in (i - window + 1)..i : ~close[k].nan
    /\ close[i].v * window > WindowSum(close, i - window + 1, i)

\* C3: the signals are one 0 or 1 per row, 1 exactly at the rows from
\* window on whose close is strictly above the mean of the trailing window,
\* and so 0 at every row before the window is full.
C3_SignalsAligned ==
    \A r \in Runs :
        Has(stages[r], "SignalsComputed") =>
            LET close == inputFile[r].close
                window == cfgFile[r].window.i
                signals == local[r].signals
            IN /\ Len(signals) = Len(close)
               /\ Len(close) >= 1 /\ window >= 1
               /\ \A i \in 1..Len(close) :
                    /\ signals[i] \in {0, 1}
                    /\ signals[i] = 1 <=> AboveWindowMean(close, window, i)
                    /\ i < window => signals[i] = 0

C3_Witness ==
    /\ Has(stages[1], "SignalsComputed")
    /\ cfgFile[1].window.i = 2
    /\ inputFile[1].close = <<Num(1), Num(3), Num(2)>>
    /\ local[1].signals = <<0, 1, 0>>

Ones(signals) == Cardinality({i \in 1..Len(signals) : signals[i] = 1})

\* C4: in a written MetricsRecord, value (in ten-thousandths) is the number
\* of 1-signals over the number of rows rounded to the nearest
\* ten-thousandth and lies in 0..10000, and rows_processed is the number
\* of input rows; with a window larger than the table no stage from the
\* rolling mean to the metrics raises, every signal is 0 and value is 0.
C4_MetricsValue ==
    \A r \in Runs :
        LET n == Len(inputFile[r].close)
            window == cfgFile[r].window
            m == disk[r]
            d == m.value * n - 10000 * Ones(local[r].signals)
        IN /\ m.status = "success" =>
                /\ m.value >= 0 /\ m.value <= 10000
                /\ 2 * d <= n /\ 2 * d >= -n
                /\ m.rows_processed = n
                /\ window.i > n =>
                     m.value = 0 /\ \A i \in 1..n : local[r].signals[i] = 0
           /\ (/\ Has(stages[r], "DataLoaded") /\ inputFile[r].numeric
               /\ window.t = "int" /\ window.i > n
               /\ local[r].exc # "")
                => local[r].exc \in {"OSError: output path", "OSError: stdout"}

C4_Witness ==
    /\ disk[1].status = "success"
    /\ Len(inputFile[1].close) = 3
    /\ Ones(local[1].signals) = 2
    /\ disk[1].value = 6667
    /\ pc[1] = "returned 0"

\* C5: a run that returns 0 raised nothing and leaves its MetricsRecord at
\* the output path; a run that returns 1 caught a failure, logged it and
\* leaves its ErrorRecord there; a caught failure ends in return 1 unless
\* the handler's own write raised.
C5_ExitCodes ==
    \A r \in Runs :
        /\ pc[r] = "returned 0" =>
            /\ disk[r].status = "success" /\ disk[r] = local[r].metrics
            /\ ~Has(calls[r], "except") /\ local[r].exc = ""
        /\ pc[r] = "returned 1" =>
            /\ disk[r].status = "error" /\ disk[r] = local[r].error_out
            /\ written[r][Len(written[r])] = "error"
            /\ Has(calls[r], "except")
            /\ <<r, "ERROR Pipeline failed">> \in logfile[r]
        /\ pc[r] = "uncaught" =>
            /\ Has(calls[r], "except")
            /\ calls[r][Len(calls[r])] = "write_output"
            /\ ~Has(written[r], "error")

C5_Witness ==
    /\ pc[1] = "returned 1"
    /\ disk[1].status = "error"
    /\ local[1].exc = "Missing required config key: window"

\* C6: an accepted configuration has an integer seed, an integer window of
\* at least 1 and a non-empty string version.
C6_AcceptedConfigTyped ==
    \A r \in Runs :
        Has(stages[r], "ConfigLoaded") =>
            LET config == local[r].config
            IN /\ config.seed.t = "int"
               /\ config.window.t = "int" /\ config.window.i >= 1
               /\ config.version.t = "str" /\ config.version.s # ""

\* C7: an exception is caught once, and the ErrorRecord built for it holds
\* the exception's text and, as version, the placeholder "v1" when
\* load_config raised and the configuration's version when a later call did.
C7_ErrorRecord ==
    \A r \in Runs :
        /\ Count(calls[r], "except") <= 1
        /\ pc[r] = "except" => local[r].exc # "" /\ ~Has(calls[r], "except")
        /\ pc[r] \in {"write_error", "returned 1", "uncaught"} =>
            /\ local[r].exc # ""
            /\ local[r].error_out.status = "error"
            /\ local[r].error_out.error_message = local[r].exc
            /\ local[r].error_out.version =
                    IF Has(stages[r], "ConfigLoaded") THEN cfgFile[r].version.s ELSE "v1"
        /\ pc[r] = "returned 1" => disk[r] = local[r].error_out

C7_Witness ==
    /\ pc[1] = "returned 1"
    /\ Has(stages[1], "ConfigLoaded")
    /\ disk[1].version = "v2"
    /\ disk[1].error_message = "Missing required column: close"

PipelineCalls ==
    <<"load_config", "seed", "load_data", "compute_rolling_mean",
      "generate_signals", "calculate_metrics", "write_output", "print">>
RunnerStates ==
    <<"Started", "ConfigLoaded", "SeedApplied", "DataLoaded", "StatisticComputed",
      "SignalsComputed", "MetricsComputed", "WrittenSuccess">>

\* C8: the calls of a run are a prefix of the pipeline's order, each made
\* only when the runner state before it has been reached, and after an
\* exception nothing follows but the handler and its one write; the runner
\* states are a prefix of their order, then at most Written(Failure).
C8_StageOrder ==
    \A r \in Runs :
        \E k \in 0..Len(PipelineCalls), j \in 0..Len(RunnerStates) :
            /\ \/ calls[r] = SubSeq(PipelineCalls, 1, k)
               \/ calls[r] = SubSeq(PipelineCalls, 1, k) \o <<"except">>
               \/ calls[r] = SubSeq(PipelineCalls, 1, k) \o <<"except", "write_output">>
            /\ \/ stages[r] = SubSeq(RunnerStates, 1, j)
               \/ /\ stages[r] = SubSeq(RunnerStates, 1, j) \o <<"WrittenFailure">>
                  /\ Has(calls[r], "except")
            /\ k <= j
            /\ j <= k + 1
            /\ Has(calls[r], "load_data") => Has(stages[r], "SeedApplied")

C8_Witness ==
    /\ pc[1] = "returned 1"
    /\ stages[1] = <<"Started", "ConfigLoaded", "SeedApplied", "DataLoaded",
                     "WrittenFailure">>
    /\ calls[1] = <<"load_config", "seed", "load_data", "compute_rolling_mean",
                    "except", "write_output">>

\* C9: a failed write of the MetricsRecord is not caught by the runner and
\* no other document is written in its place.
C9_WriteFailureFatal ==
    \A r \in Runs :
        local[r].exc = "OSError: output path" =>
            ~Has(calls[r], "except") /\ ~Has(written[r], "error")

Seeded(r) == Has(stages[r], "SeedApplied")
Running(r) == pc[r] \notin {"returned 0", "returned 1", "uncaught"}

\* C10: runs of one process are isolated: a run's log file holds only the
\* run's own lines, and while a run that seeded the generator is running
\* the generator's state is the one its seed gave.
C10_RunsIsolated ==
    \A r \in Runs :
        /\ \A line \in logfile[r] : line[1] = r
        /\ Seeded(r) /\ Running(r) => rng.seed = local[r].config.seed.i

====
